---- MODULE Spec2Model ----
(***************************************************************************)
(* Model of imagen_optimized.py: the batch image optimizer.                *)
(*                                                                         *)
(* A path is a record [tree, dir, stem, nb, ext]: the top-level tree it    *)
(* lives in, the directories below the tree's top, the base name, the      *)
(* number of ".backup" infixes in the file name and the last suffix        *)
(* (without its dot, in its original case).  "a.backup.jpg" under src/sub  *)
(* is [tree |-> "src", dir |-> <<"sub">>, stem |-> "a", nb |-> 1,          *)
(* ext |-> "jpg"].  The file system maps the paths of the regular files    *)
(* that exist to their contents; directories are implicit.                 *)
(*                                                                         *)
(* The codec library (PIL) is outside the repository: a file's content     *)
(* carries whether it decodes, and the operating system's and the codec's  *)
(* failures are inputs of the step (fault).                                *)
(***************************************************************************)
EXTENDS Integers, Sequences, FiniteSets, TLC

VARIABLES
    quality,      \* args.quality
    dirExists,    \* whether args.directory exists
    recursive,    \* args.recursive
    backup,       \* args.backup
    outRoot,      \* args.output as a directory (tree, dir), or None
    fs,           \* the file system: path -> content
    stats,        \* ImageOptimizer.stats
    image_files,  \* optimize_directory: the candidates the glob found
    todo,         \* the candidates the loop has not reached yet
    pc,           \* "main", "loop" or "exit"
    exitCode,     \* the process' exit status (-1 while running)
    msg,          \* the last message main or optimize_directory printed
    summary,      \* whether print_summary ran
    log,          \* history: one record per optimize_image call of this run
    snaps,        \* history: the file system at the start of each run
    faults        \* environment failures injected so far

vars == <<quality, dirExists, recursive, backup, outRoot, fs, stats,
          image_files, todo, pc, exitCode, msg, summary, log, snaps, faults>>

config == <<quality, dirExists, recursive, backup, outRoot>>

----------------------------------------------------------------------------
(* Bounds *)

MaxFiles == 2

MaxRuns == 2

MaxFaults == 1

----------------------------------------------------------------------------
(* Paths *)

\* args.output not given
None == [tree |-> "none", dir |-> <<>>]

\* args.directory
SrcRoot == [tree |-> "src", dir |-> <<>>]

\* the values of args.quality: below the range, in it, above it
Qualities == {0, 100, 101}

\* where the environment makes optimize_image raise: os.rename, os.path.getsize,
\* decoding or transforming the image, img.save after it opened its destination
Faults == {"none", "rename", "getsize", "transform", "save"}

\* str.lower() on a suffix
Lower(e) ==
    CASE e = "JPG" -> "jpg"
      [] e = "PNG" -> "png"
      [] e = "BMP" -> "bmp"
      [] OTHER -> e

supported_formats == {"jpg", "jpeg", "png", "webp", "bmp", "tiff"}

is_image_file(p) == Lower(p.ext) \in supported_formats

get_output_format(p) ==
    LET ext == Lower(p.ext) IN
    IF ext \in {"jpg", "jpeg", "bmp", "tiff"} THEN "JPEG"
    ELSE IF ext = "png" THEN "PNG"
    ELSE IF ext = "webp" THEN "WEBP"
    ELSE "JPEG"

\* input_path.with_suffix(f'.backup{input_path.suffix}')
backup_path(p) == [p EXCEPT !.nb = p.nb + 1]

\* output_path.with_suffix('.jpg')
with_suffix_jpg(p) == [p EXCEPT !.ext = "jpg"]

\* final_output_path, were the suffix never changed
final_output_path_keep(input_path, output_path) == output_path

\* the suffix change of the JPEG branch
final_output_path(input_path, output_path) ==
    IF get_output_format(input_path) = "JPEG"
       /\ Lower(output_path.ext) \notin {"jpg", "jpeg"}
    THEN with_suffix_jpg(output_path)
    ELSE output_path

\* whether p lies in directory r or below it
Under(p, r) ==
    /\ p.tree = r.tree
    /\ Len(p.dir) >= Len(r.dir)
    /\ SubSeq(p.dir, 1, Len(r.dir)) = r.dir

\* mirror, were the relative path cut down to the file's name
mirror_flat(p, r) == [p EXCEPT !.tree = r.tree, !.dir = r.dir]

\* output_directory / image_file.relative_to(directory)
mirror(p, r) == [p EXCEPT !.tree = r.tree, !.dir = r.dir \o p.dir]

\* directory.glob(pattern), files only, supported suffixes only
glob(f, rec) ==
    {p \in DOMAIN f : /\ Under(p, SrcRoot)
                      /\ (rec \/ p.dir = <<>>)
                      /\ is_image_file(p)}

----------------------------------------------------------------------------
(* Contents *)

\* what a failed save leaves of a file it had opened for writing
Truncated == [org |-> None, gen |-> 0, ok |-> FALSE, size |-> 0]

\* img.save: the re-encoded image
Encoded(c) == [org |-> c.org, gen |-> c.gen + 1, ok |-> TRUE, size |-> 1]

\* os.rename(a, b)
Rename(f, a, b) ==
    [p \in (DOMAIN f \ {a}) \cup {b} |-> IF p = b THEN f[a] ELSE f[p]]

\* open(p, "wb").write(c)
WriteFile(f, p, c) ==
    [q \in DOMAIN f \cup {p} |-> IF q = p THEN c ELSE f[q]]

ZeroStats ==
    [processed |-> 0, skipped |-> 0, errors |-> 0,
     original_size |-> 0, optimized_size |-> 0]

----------------------------------------------------------------------------
(* optimize_image *)

\* Failed, were the error counted as skipped only
Failed_skipped(f, st, cand, inp, out, ren, wrote, fired) ==
    [fs |-> f, stats |-> [st EXCEPT !.skipped = st.skipped + 1], ret |-> FALSE,
     cand |-> cand, input |-> inp, output |-> out, renamed |-> ren,
     wrote |-> wrote, fired |-> fired]

\* The except branch: count the error, return False.
Failed(f, st, cand, inp, out, ren, wrote, fired) ==
    [fs |-> f, stats |-> [st EXCEPT !.errors = st.errors + 1], ret |-> FALSE,
     cand |-> cand, input |-> inp, output |-> out, renamed |-> ren,
     wrote |-> wrote, fired |-> fired]

\* One call optimize_image(input_path, output_path, backup) on file system f
\* with statistics st.  fault is the step at which the environment fails
\* ("none": nowhere).  The result is the file system and the statistics the
\* call leaves, its return value, the path it read from (input), the path it
\* wrote or would have written (output), whether it renamed the original to
\* its backup, whether it wrote to output, and whether the fault took effect.
optimize_image(f, st, input_path0, output_arg, bk, fault) ==
    LET output_path0 == IF output_arg = None THEN input_path0 ELSE output_arg
        bpath == backup_path(input_path0)
        doRename == bk /\ output_path0 = input_path0 /\ bpath \notin DOMAIN f
    IN
    IF doRename /\ fault = "rename"
    THEN Failed(f, st, input_path0, input_path0, output_path0, FALSE, FALSE, TRUE)
    ELSE
    LET f1 == IF doRename THEN Rename(f, input_path0, bpath) ELSE f
        input_path == IF doRename THEN bpath ELSE input_path0
    IN
    IF fault = "getsize" \/ input_path \notin DOMAIN f1
    THEN Failed(f1, st, input_path0, input_path, output_path0, doRename, FALSE,
                fault = "getsize")
    ELSE
    LET original_size == f1[input_path].size
        st1 == [st EXCEPT !.original_size = st.original_size + original_size]
    IN
    IF fault = "transform" \/ ~f1[input_path].ok
    THEN Failed(f1, st1, input_path0, input_path, output_path0, doRename, FALSE,
                fault = "transform")
    ELSE
    LET output_path == final_output_path(input_path, output_path0) IN
    IF fault = "save"
    THEN \* Image.save opened the destination for writing: a file that was
         \* there is truncated, one that save created is removed again
         IF output_path \in DOMAIN f1
         THEN Failed(WriteFile(f1, output_path, Truncated), st1, input_path0,
                     input_path, output_path, doRename, TRUE, TRUE)
         ELSE Failed(f1, st1, input_path0, input_path, output_path, doRename,
                     FALSE, TRUE)
    ELSE
    LET f2 == WriteFile(f1, output_path, Encoded(f1[input_path]))
        optimized_size == f2[output_path].size
        st2 == [st1 EXCEPT !.optimized_size = st1.optimized_size + optimized_size,
                           !.processed = st1.processed + 1]
    IN
    IF original_size = 0   \* ZeroDivisionError in the reduction
    THEN Failed(f2, st2, input_path0, input_path, output_path, doRename, TRUE,
                FALSE)
    ELSE [fs |-> f2, stats |-> st2, ret |-> TRUE, cand |-> input_path0,
          input |-> input_path, output |-> output_path, renamed |-> doRename,
          wrote |-> TRUE, fired |-> FALSE]

----------------------------------------------------------------------------
(* Initial states *)

InitExts == {"jpg", "jpeg", "png", "webp", "bmp", "tiff", "JPG", "txt"}

\* The files a run may start from: a file of every suffix at the top of the
\* directory, backups that exist already, and files in a subdirectory.
InitPaths ==
    {[tree |-> "src", dir |-> <<>>, stem |-> "a", nb |-> 0, ext |-> e] :
        e \in InitExts}
    \cup {[tree |-> "src", dir |-> <<>>, stem |-> "a", nb |-> 1, ext |-> e] :
        e \in {"jpg"}}
    \cup {[tree |-> "src", dir |-> <<"sub">>, stem |-> "a", nb |-> 0, ext |-> e] :
        e \in {"tiff"}}

\* a decodable image
GoodFile(p) == [org |-> p, gen |-> 0, ok |-> TRUE, size |-> 2]

\* a corrupt file
BadFile(p) == [org |-> p, gen |-> 0, ok |-> FALSE, size |-> 1]

\* the subsets of S of at most n elements
RECURSIVE SubsetsUpTo(_, _)
SubsetsUpTo(S, n) ==
    IF n = 0 THEN {{}}
    ELSE LET prev == SubsetsUpTo(S, n - 1) IN
         prev \cup {T \cup {x} : T \in prev, x \in S}

\* no output directory, one apart from the directory, the directory itself
OutRoots == {None, [tree |-> "out", dir |-> <<>>], SrcRoot}

Init ==
    /\ quality \in Qualities
    /\ dirExists \in BOOLEAN
    /\ recursive \in BOOLEAN
    /\ backup \in BOOLEAN
    /\ outRoot \in OutRoots
    /\ \E S \in SubsetsUpTo(InitPaths, MaxFiles) :
          /\ (~dirExists => S = {})
          /\ \E B \in SUBSET S :
                /\ fs = [p \in S |-> IF p \in B THEN BadFile(p) ELSE GoodFile(p)]
                /\ snaps = <<[fs |-> fs, prev |-> -1]>>
    /\ stats = ZeroStats
    /\ image_files = {}
    /\ todo = {}
    /\ pc = "main"
    /\ exitCode = -1
    /\ msg = ""
    /\ summary = FALSE
    /\ log = {}
    /\ faults = 0

----------------------------------------------------------------------------
(* main and optimize_directory *)

Exit(code, m) ==
    /\ pc' = "exit"
    /\ exitCode' = code
    /\ msg' = m

\* main: the quality is out of range
MainBadQuality ==
    /\ pc = "main"
    /\ (quality < 1 \/ quality > 100)
    /\ Exit(1, "quality")
    /\ UNCHANGED <<config, fs, stats, image_files, todo, summary, log, snaps, faults>>

\* optimize_directory: the directory does not exist; returns False
DirectoryMissing ==
    /\ pc = "main"
    /\ ~(quality < 1 \/ quality > 100)
    /\ ~dirExists
    /\ Exit(1, "not_completed")
    /\ UNCHANGED <<config, fs, stats, image_files, todo, summary, log, snaps, faults>>

\* optimize_directory: creating the output directory raises
OutputMkdirFails ==
    /\ pc = "main"
    /\ ~(quality < 1 \/ quality > 100)
    /\ dirExists
    /\ outRoot # None
    /\ faults < MaxFaults
    /\ faults' = faults + 1
    /\ Exit(1, "unexpected")
    /\ UNCHANGED <<config, fs, stats, image_files, todo, summary, log, snaps>>

\* optimize_directory: the glob finds no image; returns False
NoImages ==
    /\ pc = "main"
    /\ ~(quality < 1 \/ quality > 100)
    /\ dirExists
    /\ glob(fs, recursive) = {}
    /\ Exit(1, "not_completed")
    /\ UNCHANGED <<config, fs, stats, image_files, todo, summary, log, snaps, faults>>

\* optimize_directory: the glob finds images; the loop starts
StartLoop ==
    /\ pc = "main"
    /\ ~(quality < 1 \/ quality > 100)
    /\ dirExists
    /\ glob(fs, recursive) # {}
    /\ image_files' = glob(fs, recursive)
    /\ todo' = glob(fs, recursive)
    /\ pc' = "loop"
    /\ UNCHANGED <<config, fs, stats, exitCode, msg, summary, log, snaps, faults>>

\* optimize_directory: mirroring the directory of the next candidate under the
\* output directory raises; the exception leaves optimize_directory
MirrorFails ==
    /\ pc = "loop"
    /\ outRoot # None
    /\ \E image_file \in todo : TRUE
    /\ faults < MaxFaults
    /\ faults' = faults + 1
    /\ Exit(1, "unexpected")
    /\ UNCHANGED <<config, fs, stats, image_files, todo, summary, log, snaps>>

\* optimize_directory: one iteration of the loop, on any candidate left (the
\* glob's order is the file system's)
ProcessFile ==
    /\ pc = "loop"
    /\ \E image_file \in todo, fault \in Faults :
          LET output_path == IF outRoot # None THEN mirror(image_file, outRoot)
                             ELSE None
              r == optimize_image(fs, stats, image_file, output_path, backup, fault)
          IN
          /\ IF fault = "none" THEN faults' = faults
             ELSE /\ faults < MaxFaults
                  /\ r.fired
                  /\ faults' = faults + 1
          /\ fs' = r.fs
          /\ stats' = IF r.ret THEN r.stats
                      ELSE [r.stats EXCEPT !.skipped = r.stats.skipped + 1]
          /\ todo' = todo \ {image_file}
          /\ log' = log \cup {[cand |-> r.cand, input |-> r.input,
                               output |-> r.output, ret |-> r.ret,
                               renamed |-> r.renamed, wrote |-> r.wrote]}
    /\ UNCHANGED <<config, image_files, pc, exitCode, msg, summary, snaps>>

\* Finish, were a run with failed files reported as not completed
Finish_strict ==
    /\ pc = "loop"
    /\ todo = {}
    /\ summary' = TRUE
    /\ IF stats.errors = 0 THEN Exit(0, "completed") ELSE Exit(1, "not_completed")
    /\ UNCHANGED <<config, fs, stats, image_files, todo, log, snaps, faults>>

\* optimize_directory: the loop is over; print_summary, return True
Finish ==
    /\ pc = "loop"
    /\ todo = {}
    /\ summary' = TRUE
    /\ Exit(0, "completed")
    /\ UNCHANGED <<config, fs, stats, image_files, todo, log, snaps, faults>>

\* main: KeyboardInterrupt during the loop
Interrupt ==
    /\ pc = "loop"
    /\ todo # {}
    /\ Exit(1, "interrupted")
    /\ UNCHANGED <<config, fs, stats, image_files, todo, summary, log, snaps, faults>>

\* after a completed run, the program is started again with the same arguments
NextRun ==
    /\ pc = "exit"
    /\ exitCode = 0
    /\ Len(snaps) < MaxRuns
    /\ snaps' = Append(snaps, [fs |-> fs, prev |-> exitCode])
    /\ stats' = ZeroStats
    /\ image_files' = {}
    /\ todo' = {}
    /\ pc' = "main"
    /\ exitCode' = -1
    /\ msg' = ""
    /\ summary' = FALSE
    /\ log' = {}
    /\ UNCHANGED <<config, fs, faults>>

Next ==
    \/ MainBadQuality
    \/ DirectoryMissing
    \/ OutputMkdirFails
    \/ NoImages
    \/ StartLoop
    \/ MirrorFails
    \/ ProcessFile
    \/ Finish
    \/ Interrupt

\* one run of the program
Spec == Init /\ [][Next]_vars

NextRerun ==
    \/ Next
    \/ NextRun

\* the program run up to MaxRuns times on the same directory
SpecRerun == Init /\ [][NextRerun]_vars

----------------------------------------------------------------------------
(* Properties *)

\* the file system when the current run started
FsStart == snaps[Len(snaps)].fs

\* the destination equals the source
InPlace(c) == outRoot = None \/ (outRoot = SrcRoot /\ c.tree = "src")

\* C1: when a run reaches the summary, processed + errors equals the number
\* of candidates the glob found, and every candidate was counted in exactly
\* one of the two counters.
C1_StatsCount ==
    (pc = "exit" /\ summary) =>
        /\ stats.processed + stats.errors = Cardinality(image_files)
        /\ {r.cand : r \in log} = image_files
        /\ Cardinality(log) = Cardinality(image_files)
        /\ stats.processed = Cardinality({r \in log : r.ret})
        /\ stats.errors = Cardinality({r \in log : ~r.ret})

C1_Witness ==
    /\ pc = "exit"
    /\ summary
    /\ stats.processed = 1
    /\ stats.errors = 1

\* C2 (as claimed): after two completed in-place runs with --backup, the
\* backup files are those the first run left, at most one per original.
C2_BackupOnce ==
    (pc = "exit" /\ exitCode = 0 /\ Len(snaps) = 2 /\ backup /\ outRoot = None) =>
        /\ {p \in DOMAIN fs : p.nb > 0} = {p \in DOMAIN FsStart : p.nb > 0}
        /\ \A p \in DOMAIN snaps[1].fs :
              Cardinality({q \in DOMAIN fs :
                              /\ q.nb > p.nb
                              /\ [q EXCEPT !.nb = p.nb] = p}) <= 1

\* the relative path the output of candidate c has under the output root
C3_Expected(c) ==
    [tree |-> outRoot.tree, dir |-> outRoot.dir \o c.dir, stem |-> c.stem,
     nb |-> c.nb,
     ext |-> IF Lower(c.ext) \in {"bmp", "tiff"} THEN "jpg" ELSE c.ext]

C3_SourceUntouched ==
    \A p \in DOMAIN FsStart :
        p.tree = "src" => (p \in DOMAIN fs /\ fs[p] = FsStart[p])

\* C3 (as claimed): with an output root, every file under it sits at the
\* relative path of the source file it came from, and no file under the
\* source root changes.
C3_MirrorExact ==
    outRoot # None =>
        /\ \A r \in log : r.wrote =>
              r.output = [r.cand EXCEPT !.tree = outRoot.tree,
                                        !.dir = outRoot.dir \o r.cand.dir]
        /\ C3_SourceUntouched

\* C3 (amended): with an output root apart from the source root, every file
\* under it sits at the relative path of the source file it came from, its
\* suffix replaced by .jpg when the source's is .bmp or .tiff, and no file
\* under the source root changes.
C3_MirrorJpg ==
    (outRoot # None /\ outRoot.tree # "src") =>
        /\ \A p \in DOMAIN fs :
              p.tree = outRoot.tree =>
                 \E c \in image_files :
                    /\ p = C3_Expected(c)
                    /\ fs[p] \in {Encoded(FsStart[c]), Truncated}
        /\ \A r \in log : r.wrote => r.output = C3_Expected(r.cand)
        /\ C3_SourceUntouched

C3_Witness ==
    /\ pc = "exit"
    /\ summary
    /\ outRoot # None
    /\ outRoot.tree # "src"
    /\ \E r \in log : r.ret /\ r.cand.dir = <<"sub">> /\ r.cand.ext = "tiff"
    /\ \E r \in log : r.ret /\ r.cand.ext = "png"

\* C4 (as claimed): a run that found candidates and was not interrupted
\* attempts every candidate and prints the summary.
C4_NoAbort ==
    (pc = "exit" /\ image_files # {} /\ msg # "interrupted") =>
        (todo = {} /\ summary)

\* C5 (as claimed): a failing optimize_image call counts one error and one
\* skip and leaves both size totals as they were.
C5_FailureKeepsSizes ==
    [][(pc = "loop" /\ stats'.errors = stats.errors + 1) =>
          /\ stats'.skipped = stats.skipped + 1
          /\ stats'.original_size = stats.original_size
          /\ stats'.optimized_size = stats.optimized_size]_vars

\* C6: the exit code is 0 exactly when the loop ran over all of a non-empty
\* candidate list, however many files failed; it is 1 on a quality out of
\* range, a missing directory, no candidates, an interrupt and an exception
\* leaving optimize_directory.
C6_ExitCodes ==
    pc = "exit" =>
        /\ exitCode \in {0, 1}
        /\ (image_files # {} /\ todo = {} /\ summary) => exitCode = 0
        /\ exitCode = 0 => (image_files # {} /\ todo = {} /\ summary)
        /\ (quality < 1 \/ quality > 100) => exitCode = 1
        /\ ~dirExists => exitCode = 1
        /\ {p \in DOMAIN FsStart :
               /\ p.tree = "src"
               /\ (recursive \/ p.dir = <<>>)
               /\ Lower(p.ext) \in supported_formats} = {} => exitCode = 1
        /\ msg \in {"interrupted", "unexpected"} => exitCode = 1

C6_Witness ==
    /\ pc = "exit"
    /\ exitCode = 0
    /\ Cardinality(image_files) = 2
    /\ stats.errors = 2
    /\ stats.processed = 0

\* C7 (as claimed): over an in-place run with --backup, a backup file that
\* existed at the backup path of a candidate is neither renamed nor changed.
C7_BackupUntouched ==
    (pc = "exit" /\ exitCode = 0 /\ backup /\ outRoot = None) =>
        \A c \in image_files :
            LET b == [c EXCEPT !.nb = c.nb + 1] IN
            b \in DOMAIN FsStart =>
                /\ b \in DOMAIN fs
                /\ fs[b] = FsStart[b]
                /\ \A r \in log : r.renamed => (r.cand # b /\ r.input # b)

\* where C8 (amended) has the optimized result of candidate c
C8_Dest(c) ==
    IF Lower(c.ext) \in {"bmp", "tiff"} THEN [c EXCEPT !.ext = "jpg"] ELSE c

\* the step is a successful in-place optimize of c with a backup to make
C8_Case(c) ==
    /\ pc = "loop"
    /\ c \in todo
    /\ todo' = todo \ {c}
    /\ backup
    /\ InPlace(c)
    /\ [c EXCEPT !.nb = c.nb + 1] \notin DOMAIN fs
    /\ stats'.processed = stats.processed + 1

\* C8 (as claimed): a successful in-place optimize with a backup to make
\* leaves the original bytes at the backup path and the optimized result at
\* the original file name.
C8_BackupThenOriginalName ==
    [][\A c \in todo : C8_Case(c) =>
          LET b == [c EXCEPT !.nb = c.nb + 1] IN
          /\ b \in DOMAIN fs'
          /\ fs'[b] = fs[c]
          /\ c \in DOMAIN fs'
          /\ fs'[c] = Encoded(fs[c])]_vars

\* C8 (amended): a successful in-place optimize with a backup to make reads
\* from the backup, leaves the original bytes at the backup path and the
\* optimized result at the original file name, its suffix replaced by .jpg
\* when it is .bmp or .tiff (nothing is left at the original name then).
C8_BackupThenOutputName ==
    [][\A c \in todo : C8_Case(c) =>
          LET b == [c EXCEPT !.nb = c.nb + 1] IN
          /\ b \in DOMAIN fs'
          /\ fs'[b] = fs[c]
          /\ C8_Dest(c) \in DOMAIN fs'
          /\ fs'[C8_Dest(c)] = Encoded(fs[c])
          /\ (C8_Dest(c) # c => c \notin DOMAIN fs')
          /\ \E r \in log' : r.cand = c /\ r.input = b /\ r.renamed /\ r.ret]_vars

C8_Witness ==
    /\ backup
    /\ outRoot = None
    /\ \E r \in log : r.renamed /\ r.ret /\ r.cand.ext = "bmp"
    /\ \E r \in log : r.renamed /\ r.ret /\ r.cand.ext = "webp"

\* C9 (as claimed): no two candidates are written to the same destination,
\* and no write or backup rename of a candidate lands on a candidate the
\* loop has not reached yet.
C9_DistinctPaths ==
    /\ \A r1, r2 \in log :
          (r1.cand # r2.cand /\ r1.wrote /\ r2.wrote) => r1.output # r2.output
    /\ \A r \in log, c \in todo :
          /\ r.wrote => r.output # c
          /\ r.renamed => r.input # c

\* C10 (as claimed): a failing optimize_image call leaves the file system as
\* it was.
C10_FailureKeepsFiles ==
    [][(pc = "loop" /\ stats'.errors = stats.errors + 1) => fs' = fs]_vars

====
